---- MODULE Spec2Model ----
(***************************************************************************)
(* A model of lib/streamlit/cli.py, the command dispatcher of Streamlit.   *)
(*                                                                         *)
(* Strings that the code transforms (option keys, URL paths, file paths)   *)
(* are sequences of one-character strings, so that str.replace, str.strip  *)
(* and str.rsplit are computed as Python computes them.  Three             *)
(* specifications share the variables:                                     *)
(*   SpecOptions  the option translator and _apply_config_options_from_cli *)
(*   SpecRun      main_run, _download_remote and _main_run                 *)
(*   SpecCli      main's dispatch on sys.argv, help / version, cache       *)
(*                clear, config show and their deprecated aliases          *)
(***************************************************************************)
EXTENDS Naturals, Sequences, FiniteSets

VARIABLES
    pc,        \* position of the (single-threaded) process
    exc,       \* the exception that is propagating / ended the process
    stdout,    \* what was written to standard output, in order
    \* ---- option translation and the override applier
    registry,  \* _config._config_options: the keys of the option registry
    kwargs,    \* main_run's **kwargs: destination name -> parsed value
    store,     \* the live configuration store: key -> [value, where]
    store0,    \* the store as it was when the applier started
    todo,      \* entries of kwargs the applier's loop has not visited yet
    \* ---- run
    target,    \* main_run's target argument
    args,      \* main_run's residual positional arguments
    fs,        \* the filesystem: path -> [kind, content]
    script,    \* script_path of main_run (URL branch)
    response,  \* what requests.get returned or raised: [error, body]
    fetches,   \* number of requests.get calls made
    flag,      \* streamlit._is_running_with_streamlit
    trace,     \* the calls _main_run has made, in order
    boot,      \* the arguments bootstrap.run was called with
    \* ---- dispatch
    argv,      \* sys.argv
    cache,     \* the on-disk cache directory: "present" or "absent"
    cache0,    \* the cache directory when the process started
    cfg,       \* the effective configuration that show_config prints
    stderr,    \* what was written to standard error, in order
    calls      \* the handlers that ran, in order

sharedVars == <<pc, exc, stdout>>
optVars == <<registry, kwargs, store, store0, todo>>
runVars == <<target, args, fs, script, response, fetches, flag, trace, boot>>
cliVars == <<argv, cache, cache0, cfg, stderr, calls>>
vars == <<sharedVars, optVars, runVars, cliVars>>

(***************************************************************************)
(* Bounds of the model.                                                    *)
(***************************************************************************)
MaxKeyLen == 3     \* longest option key, in characters
MaxOptions == 2    \* most options in the registry
MaxPathLen == 3    \* longest local path / URL path, in characters
MaxArgs == 2       \* most residual positional arguments of run
MaxArgv == 3       \* most command-line arguments after the program name

SeqsUpTo(S, n) == UNION {[1..m -> S] : m \in 0..n}

NoExc == [type |-> "none", msg |-> <<>>]
NoResponse == [error |-> "not requested", body |-> <<>>]

(***************************************************************************)
(* Python string methods, on sequences of characters.                      *)
(***************************************************************************)
\* s.replace(old, new) for one-character old and new
Replace(s, old, new) == [i \in 1..Len(s) |-> IF s[i] = old THEN new ELSE s[i]]

UpperChar(c) == IF c = "a" THEN "A" ELSE IF c = "b" THEN "B" ELSE c

\* s.upper()
Upper(s) == [i \in 1..Len(s) |-> UpperChar(s[i])]

RECURSIVE LStrip(_, _)
LStrip(s, c) == IF s # <<>> /\ s[1] = c THEN LStrip(Tail(s), c) ELSE s

RECURSIVE RStrip(_, _)
RStrip(s, c) ==
    IF s # <<>> /\ s[Len(s)] = c THEN RStrip(SubSeq(s, 1, Len(s) - 1), c) ELSE s

\* s.strip(c)
Strip(s, c) == RStrip(LStrip(s, c), c)

\* s.rsplit(c, 1)[-1]: what follows the last c, or all of s when it holds no c
RECURSIVE RSplitLast(_, _)
RSplitLast(s, c) ==
    IF s = <<>> \/ s[Len(s)] = c
    THEN <<>>
    ELSE RSplitLast(SubSeq(s, 1, Len(s) - 1), c) \o <<s[Len(s)]>>

(***************************************************************************)
(* The option registry (streamlit.config) and the translator.              *)
(***************************************************************************)
NameChars == {"a", "_"}
KeyChars == NameChars \cup {"."}

\* A registry key: "section.name", non-empty segments of name characters.
IsOptionKey(k) ==
    /\ Len(k) >= 3
    /\ k[1] # "."
    /\ k[Len(k)] # "."
    /\ \E i \in 1..Len(k) : k[i] = "."
    /\ \A i \in 1..(Len(k) - 1) : ~(k[i] = "." /\ k[i + 1] = ".")

OptionKeys == {k \in SeqsUpTo(KeyChars, MaxKeyLen) : IsOptionKey(k)}

None == "None"
Values == {"8080", "true"}
Layers == {"<default>", "config.toml"}

\* _convert_config_option_to_click_option
ConvertOption(key) ==
    LET param == Replace(key, ".", "_")
    IN [param |-> param,
        option |-> <<"-", "-">> \o key,
        envvar |-> <<"STREAMLIT_CONFIG_">> \o Upper(param)]

\* the registry invariant: no two keys derive the same destination name
DistinctParams(reg) ==
    \A j, k \in reg : ConvertOption(j).param = ConvertOption(k).param => j = k

Registries ==
    {reg \in SUBSET OptionKeys :
        Cardinality(reg) \in 1..MaxOptions /\ DistinctParams(reg)}

\* configurator_options: the destination names click binds for `run`
Params(reg) == {ConvertOption(k).param : k \in reg}

\* _config._set_option(key, value, where)
SetOption(st, key, value, where) ==
    [k \in DOMAIN st \cup {key} |->
        IF k = key THEN [value |-> value, where |-> where] ELSE st[k]]

\* the key _apply_config_options_from_cli derives from a destination name
DefKey(param) == Replace(param, "_", ".")

\* what one pass of the applier's loop body does to the store
ApplyEntryNoNullCheck(st, param, value) ==
    SetOption(st, DefKey(param), value, "cli call option")

ApplyEntry(st, param, value) ==
    IF value # None
    THEN SetOption(st, DefKey(param), value, "cli call option")
    ELSE st

\* main_run's call of the applier: one iteration of `for config_option in kwargs`
ApplyConfigOption ==
    /\ pc = "apply_config"
    /\ \E p \in todo :
        /\ store' = ApplyEntry(store, p, kwargs[p])
        /\ todo' = todo \ {p}
    /\ UNCHANGED <<sharedVars, registry, kwargs, store0, runVars, cliVars>>

\* the loop is exhausted: _apply_config_options_from_cli returns
ApplyConfigReturn ==
    /\ pc = "apply_config"
    /\ todo = {}
    /\ pc' = "config_applied"
    /\ UNCHANGED <<exc, stdout, optVars, runVars, cliVars>>

\* C1: for every registry key k the flag is "--" + k and the destination is k
\* with "." replaced by "_"; and once the applier has run, every key k that was
\* given a non-null value v is translated back to exactly k and the store holds
\* v under k with provenance "cli call option".
C1_RoundTripApplied ==
    pc = "config_applied" =>
        \A k \in registry :
            LET o == ConvertOption(k)
            IN /\ o.option = <<"-", "-">> \o k
               /\ o.param = Replace(k, ".", "_")
               /\ kwargs[o.param] # None =>
                    /\ DefKey(o.param) = k
                    /\ k \in DOMAIN store
                    /\ store[k] = [value |-> kwargs[o.param], where |-> "cli call option"]

\* C2: the applier performs no store write for an entry whose value is null:
\* at every point of the loop, a registry key whose own entry is null holds what
\* it held when the applier started, and every store key that is not the
\* translation of a non-null entry is as it was (value and provenance).
C2_NullEntriesUntouched ==
    /\ \A k \in registry :
        kwargs[ConvertOption(k).param] = None =>
            k \in DOMAIN store /\ store[k] = store0[k]
    /\ \A s \in DOMAIN store :
        (~\E p \in DOMAIN kwargs : kwargs[p] # None /\ DefKey(p) = s) =>
            s \in DOMAIN store0 /\ store[s] = store0[s]

\* C2's case: the applier has finished, one option was given on the command
\* line and written, another was not given and keeps its config.toml value.
C2_Witness ==
    /\ pc = "config_applied"
    /\ \E j, k \in registry :
        /\ kwargs[ConvertOption(k).param] = None
        /\ store0[k].where = "config.toml"
        /\ kwargs[ConvertOption(j).param] # None
        /\ store[j] = [value |-> kwargs[ConvertOption(j).param], where |-> "cli call option"]

RunIdle ==
    /\ target = <<>> /\ args = <<>> /\ fs = <<>> /\ script = <<>>
    /\ response = NoResponse /\ fetches = 0 /\ flag = FALSE /\ trace = <<>>
    /\ boot = [called |-> FALSE, file |-> <<>>, command_line |-> <<>>, args |-> <<>>]

CliIdle ==
    /\ argv = <<>> /\ cache = "absent" /\ cache0 = "absent" /\ cfg = "none"
    /\ stderr = <<>> /\ calls = <<>>

OptIdle ==
    /\ registry = {} /\ kwargs = <<>> /\ store = <<>> /\ store0 = <<>> /\ todo = {}

InitOptions ==
    /\ pc = "apply_config"
    /\ exc = NoExc
    /\ stdout = <<>>
    /\ registry \in Registries
    /\ kwargs \in [Params(registry) -> Values \cup {None}]
    /\ \E layer \in Layers :
        store = [k \in registry |-> [value |-> <<"set by", layer, k>>, where |-> layer]]
    /\ store0 = store
    /\ todo = DOMAIN kwargs
    /\ RunIdle
    /\ CliIdle

NextOptions == ApplyConfigOption \/ ApplyConfigReturn

SpecOptions == InitOptions /\ [][NextOptions]_vars

(***************************************************************************)
(* run: main_run, _download_remote, _main_run.                             *)
(***************************************************************************)
PathChars == {"a", "/"}
UrlOrigin == "http://host"      \* scheme and host of a URL target
TempDir == <<"/", "t">>         \* the directory tempfile.mkdtemp returns
Bodies == {<<>>, <<"import streamlit">>}
RunArgs == SeqsUpTo({"x", "y"}, MaxArgs)

LocalTargets == SeqsUpTo(PathChars, MaxPathLen) \ {<<>>}
UrlTargets ==
    {<<UrlOrigin>> \o p : p \in {q \in SeqsUpTo(PathChars, MaxPathLen) :
                                    q = <<>> \/ q[1] = "/"}}

\* validators.url(target)
IsUrl(t) == t # <<>> /\ t[1] = UrlOrigin

\* urlparse(target).path
UrlPath(t) == Tail(t)

\* os.path.join(a, b)
PathJoin(a, b) ==
    IF b # <<>> /\ b[1] = "/" THEN b
    ELSE IF a # <<>> /\ a[Len(a)] = "/" THEN a \o b
    ELSE a \o <<"/">> \o b

\* os.path.exists(p)
PathExists(f, p) == p \in DOMAIN f

IsFile(f, p) == p \in DOMAIN f /\ f[p].kind = "file"

IsPrefix(d, p) == Len(p) >= Len(d) /\ SubSeq(p, 1, Len(d)) = d

\* TemporaryDirectory.__enter__: tempfile.mkdtemp()
TemporaryDirectoryEnter(f) ==
    [p \in DOMAIN f \cup {TempDir} |->
        IF p = TempDir THEN [kind |-> "dir", content |-> <<>>] ELSE f[p]]

\* TemporaryDirectory.__exit__: shutil.rmtree(path)
TemporaryDirectoryExit(f) ==
    [p \in {q \in DOMAIN f : ~IsPrefix(TempDir, q)} |-> f[p]]

\* open(path, "wb") cannot create a file at a path naming a directory
CanOpenForWrite(f, p) ==
    /\ p # <<>>
    /\ p[Len(p)] # "/"
    /\ ~(p \in DOMAIN f /\ f[p].kind = "dir")

WriteFile(f, p, bytes) ==
    [q \in DOMAIN f \cup {p} |->
        IF q = p THEN [kind |-> "file", content |-> bytes] ELSE f[q]]

\* click.BadParameter(message); the message is the sequence of its pieces, each a
\* string (a sequence of characters or tokens)
BadParameter(m) == [type |-> "BadParameter", msg |-> m]
Raised(t) == [type |-> t, msg |-> <<>>]

\* where control goes when _main_run, or the fetch, ends with exception e
\* (NoExc: a normal return): out of the `with` block if there is one
LeaveNoCleanupOnError(e) ==
    IF IsUrl(target) /\ e = NoExc THEN "with_exit"
    ELSE IF e = NoExc THEN "returned" ELSE "raised"

Leave(e) ==
    IF IsUrl(target) THEN "with_exit"
    ELSE IF e = NoExc THEN "returned" ELSE "raised"

\* main_run up to the call of _download_remote or _main_run
MainRunNoExistsCheck ==
    /\ pc = "main_run"
    /\ IF IsUrl(target)
       THEN /\ fs' = TemporaryDirectoryEnter(fs)
            /\ script' = PathJoin(TempDir, RSplitLast(Strip(UrlPath(target), "/"), "/"))
            /\ pc' = "download"
            /\ UNCHANGED <<exc, trace>>
       ELSE /\ pc' = "_main_run"
            /\ trace' = Append(trace, [call |-> "_main_run", file |-> target, args |-> args])
            /\ UNCHANGED <<exc, fs, script>>
    /\ UNCHANGED <<stdout, optVars, target, args, response, fetches, flag, boot, cliVars>>

MainRun ==
    /\ pc = "main_run"
    /\ IF IsUrl(target)
       THEN /\ fs' = TemporaryDirectoryEnter(fs)
            /\ script' = PathJoin(TempDir, RSplitLast(Strip(UrlPath(target), "/"), "/"))
            /\ pc' = "download"
            /\ UNCHANGED <<exc, trace>>
       ELSE IF ~PathExists(fs, target)
       THEN /\ exc' = BadParameter(<<<<"File does not exist: ">>, target>>)
            /\ pc' = "raised"
            /\ UNCHANGED <<fs, script, trace>>
       ELSE /\ pc' = "_main_run"
            /\ trace' = Append(trace, [call |-> "_main_run", file |-> target, args |-> args])
            /\ UNCHANGED <<exc, fs, script>>
    /\ UNCHANGED <<stdout, optVars, target, args, response, fetches, flag, boot, cliVars>>

\* what requests.get(url) does: raises (no response), or returns a response
\* whose status raise_for_status() accepts ("" as error) or rejects
FetchErrors == {"ConnectionError", "404 Client Error: Not Found"}
Responses ==
    {[error |-> "ConnectionError", body |-> <<>>],
     [error |-> "404 Client Error: Not Found", body |-> <<"Not Found">>]}
    \cup {[error |-> "", body |-> b] : b \in Bodies}

\* _download_remote(script_path, target), and on success the call of _main_run
DownloadRemoteNoRaiseForStatus ==
    /\ pc = "download"
    /\ IF ~CanOpenForWrite(fs, script)
       THEN /\ exc' = Raised("IsADirectoryError")
            /\ pc' = Leave(exc')
            /\ UNCHANGED <<fs, response, fetches, trace>>
       ELSE /\ fetches' = fetches + 1
            /\ \E r \in Responses :
                /\ response' = r
                /\ IF r.error = "ConnectionError"
                   THEN /\ fs' = WriteFile(fs, script, <<>>)
                        /\ exc' = BadParameter(<<<<"Unable to fetch ">>, target, <<".\n">>, <<r.error>>>>)
                        /\ pc' = Leave(exc')
                        /\ UNCHANGED trace
                   ELSE /\ fs' = WriteFile(fs, script, r.body)
                        /\ pc' = "_main_run"
                        /\ trace' = Append(trace,
                                [call |-> "_main_run", file |-> script, args |-> args])
                        /\ UNCHANGED exc
    /\ UNCHANGED <<stdout, optVars, target, args, script, flag, boot, cliVars>>

DownloadRemote ==
    /\ pc = "download"
    /\ IF ~CanOpenForWrite(fs, script)
       THEN /\ exc' = Raised("IsADirectoryError")
            /\ pc' = Leave(exc')
            /\ UNCHANGED <<fs, response, fetches, trace>>
       ELSE /\ fetches' = fetches + 1
            /\ \E r \in Responses :
                /\ response' = r
                /\ IF r.error # ""
                   THEN /\ fs' = WriteFile(fs, script, <<>>)
                        /\ exc' = BadParameter(<<<<"Unable to fetch ">>, target, <<".\n">>, <<r.error>>>>)
                        /\ pc' = Leave(exc')
                        /\ UNCHANGED trace
                   ELSE /\ fs' = WriteFile(fs, script, r.body)
                        /\ pc' = "_main_run"
                        /\ trace' = Append(trace,
                                [call |-> "_main_run", file |-> script, args |-> args])
                        /\ UNCHANGED exc
    /\ UNCHANGED <<stdout, optVars, target, args, script, flag, boot, cliVars>>

\* the arguments of the _main_run call in progress
MainRunCall == trace[1]

\* _get_command_line_as_string(): the program path and the OS arguments
CommandLine == <<"streamlit", "run", target>> \o args

\* _main_run: the command line, then the process-wide flag
MainRunSetFlag ==
    /\ pc = "_main_run"
    /\ flag' = TRUE
    /\ trace' = Append(trace, [call |-> "set_flag"])
    /\ pc' = "check_activated"
    /\ UNCHANGED <<exc, stdout, optVars, target, args, fs, script, response, fetches,
                   boot, cliVars>>

\* Credentials.get_current().check_activated(auto_resolve=True)
CheckActivatedIgnoringFailure ==
    /\ pc = "check_activated"
    /\ \E ok \in BOOLEAN :
        /\ trace' = Append(trace, [call |-> "check_activated", ok |-> ok])
        /\ pc' = "version_check"
        /\ UNCHANGED exc
    /\ UNCHANGED <<stdout, optVars, target, args, fs, script, response, fetches, flag,
                   boot, cliVars>>

CheckActivated ==
    /\ pc = "check_activated"
    /\ \E ok \in BOOLEAN :
        /\ trace' = Append(trace, [call |-> "check_activated", ok |-> ok])
        /\ IF ok
           THEN pc' = "version_check" /\ UNCHANGED exc
           ELSE exc' = Raised("MissingActivation") /\ pc' = Leave(exc')
    /\ UNCHANGED <<stdout, optVars, target, args, fs, script, response, fetches, flag,
                   boot, cliVars>>

\* version.should_show_new_version_notice() and click.echo(NEW_VERSION_TEXT)
VersionNotice ==
    /\ pc = "version_check"
    /\ \/ /\ trace' = Append(trace, [call |-> "version_check", result |-> "raises"])
          /\ exc' = Raised("VersionCheckFailure")
          /\ pc' = Leave(exc')
          /\ UNCHANGED stdout
       \/ /\ trace' = Append(trace, [call |-> "version_check", result |-> "False"])
          /\ pc' = "bootstrap"
          /\ UNCHANGED <<exc, stdout>>
       \/ /\ trace' = Append(trace, [call |-> "version_check", result |-> "True"])
          /\ stdout' = Append(stdout, <<"NEW_VERSION_TEXT">>)
          /\ pc' = "bootstrap"
          /\ UNCHANGED exc
       \/ /\ trace' = Append(trace, [call |-> "version_check", result |-> "True"])
          /\ exc' = Raised("EchoFailure")
          /\ pc' = Leave(exc')
          /\ UNCHANGED stdout
    /\ UNCHANGED <<optVars, target, args, fs, script, response, fetches, flag, boot,
                   cliVars>>

\* bootstrap.run(file, command_line, args) is entered
BootstrapRun ==
    /\ pc = "bootstrap"
    /\ boot' = [called |-> TRUE, file |-> MainRunCall.file,
                command_line |-> CommandLine, args |-> MainRunCall.args]
    /\ trace' = Append(trace, [call |-> "bootstrap.run"])
    /\ pc' = "in_bootstrap"
    /\ UNCHANGED <<exc, stdout, optVars, target, args, fs, script, response, fetches,
                   flag, cliVars>>

\* bootstrap.run returns or raises
BootstrapEnd ==
    /\ pc = "in_bootstrap"
    /\ \E e \in {NoExc, Raised("DelegateFailure")} :
        /\ exc' = e
        /\ pc' = Leave(e)
    /\ UNCHANGED <<stdout, optVars, runVars, cliVars>>

\* the `with TemporaryDirectory()` block of main_run is left
WithExit ==
    /\ pc = "with_exit"
    /\ fs' = TemporaryDirectoryExit(fs)
    /\ pc' = IF exc = NoExc THEN "returned" ELSE "raised"
    /\ UNCHANGED <<exc, stdout, optVars, target, args, script, response, fetches, flag,
                   trace, boot, cliVars>>

\* the kinds of filesystem entry a local target can name
TargetKinds(t) ==
    IF t[Len(t)] = "/" THEN {"dir", "missing"} ELSE {"file", "dir", "missing"}

InitRun ==
    /\ pc = "main_run"
    /\ exc = NoExc
    /\ stdout = <<>>
    /\ OptIdle
    /\ target \in LocalTargets \cup UrlTargets
    /\ args \in RunArgs
    /\ IF IsUrl(target)
       THEN fs = <<>>
       ELSE \E k \in TargetKinds(target), body \in Bodies :
            fs = IF k = "missing" THEN <<>>
                 ELSE [p \in {target} |->
                        [kind |-> k, content |-> IF k = "file" THEN body ELSE <<>>]]
    /\ script = <<>>
    /\ response = NoResponse
    /\ fetches = 0
    /\ flag = FALSE
    /\ trace = <<>>
    /\ boot = [called |-> FALSE, file |-> <<>>, command_line |-> <<>>, args |-> <<>>]
    /\ CliIdle

NextRun ==
    \/ MainRun
    \/ DownloadRemote
    \/ MainRunSetFlag
    \/ CheckActivated
    \/ VersionNotice
    \/ BootstrapRun
    \/ BootstrapEnd
    \/ WithExit

SpecRun == InitRun /\ [][NextRun]_vars

Terminated == pc \in {"returned", "raised"}

InTempDir(p) == IsPrefix(TempDir, p)

Contains(m, x) == \E i \in 1..Len(m) : m[i] = x

\* C3: for a URL target the temporary directory exists when the fetch starts,
\* and in every terminal state of the invocation (normal return, fetch failure,
\* failure of the credential check, the version check or the bootstrap runner)
\* neither the directory nor anything inside it exists.
C3_TempDirRemoved ==
    /\ pc = "download" => (TempDir \in DOMAIN fs /\ fetches = 0)
    /\ Terminated => \A p \in DOMAIN fs : ~InTempDir(p)

\* C3's case: a URL was fetched into the temporary directory, the bootstrap
\* runner then failed, and the invocation has ended.
C3_Witness ==
    /\ pc = "raised"
    /\ IsUrl(target)
    /\ response.error = ""
    /\ boot.called
    /\ exc.type = "DelegateFailure"

\* C4: bootstrap.run is entered only after the flag was set and, after that,
\* check_activated completed successfully; and once check_activated has failed,
\* bootstrap.run has not been and is not entered.
C4_ActivationGate ==
    /\ \A k \in 1..Len(trace) :
        trace[k].call = "bootstrap.run" =>
            /\ flag
            /\ boot.called
            /\ \E i, j \in 1..k :
                /\ i < j /\ j < k
                /\ trace[i].call = "set_flag"
                /\ trace[j].call = "check_activated" /\ trace[j].ok
    /\ boot.called => \E k \in 1..Len(trace) : trace[k].call = "bootstrap.run"
    /\ (\E j \in 1..Len(trace) : trace[j].call = "check_activated" /\ ~trace[j].ok) =>
        /\ ~boot.called
        /\ pc \notin {"version_check", "bootstrap", "in_bootstrap", "returned"}

\* C4's case: the bootstrap runner has been entered.
C4_Witness ==
    /\ pc = "in_bootstrap"
    /\ boot.called
    /\ flag

\* C5: a failure of the version check, or of printing the notice, is swallowed:
\* no invocation ends with it, and the bootstrap runner is still entered with
\* the script, the command line and the residual arguments.
C5_VersionFailureSwallowed ==
    (\E i \in 1..Len(trace) : trace[i].call = "version_check") =>
        /\ exc.type \notin {"VersionCheckFailure", "EchoFailure"}
        /\ Terminated =>
            /\ boot.called
            /\ boot.file = MainRunCall.file
            /\ boot.command_line = CommandLine
            /\ boot.args = args

\* C6: when requests.get fails or returns a non-success status, the fetch ends
\* with a BadParameter whose message holds the URL and the transport error,
\* exactly one request was made, _main_run is never called (no flag, no
\* credential check, no bootstrap), and the destination file was created,
\* empty, in the temporary directory (until the directory is removed).
C6_FetchFailure ==
    response.error \in FetchErrors =>
        /\ exc.type = "BadParameter"
        /\ Contains(exc.msg, target)
        /\ Contains(exc.msg, <<response.error>>)
        /\ fetches = 1
        /\ trace = <<>>
        /\ ~flag
        /\ ~boot.called
        /\ pc \in {"with_exit", "raised"}
        /\ pc = "with_exit" =>
            /\ InTempDir(script)
            /\ IsFile(fs, script)
            /\ fs[script].content = <<>>

\* C6's case: the server answered 404 and the fetch has failed.
C6_Witness ==
    /\ response.error = "404 Client Error: Not Found"
    /\ pc = "with_exit"
    /\ IsFile(fs, script)

\* C7: for a target that is not a URL: a path that does not exist ends the
\* invocation with a BadParameter naming that path, with the flag unset and no
\* credential check or bootstrap call; a path that exists is passed to
\* _main_run, and on to bootstrap.run, unchanged, with the residual arguments
\* unchanged.
C7_LocalTarget ==
    (target # <<>> /\ ~IsUrl(target) /\ pc # "main_run") =>
        IF ~PathExists(fs, target)
        THEN /\ pc = "raised"
             /\ exc = BadParameter(<<<<"File does not exist: ">>, target>>)
             /\ ~flag
             /\ trace = <<>>
             /\ ~boot.called
        ELSE /\ MainRunCall = [call |-> "_main_run", file |-> target, args |-> args]
             /\ boot.called => (boot.file = target /\ boot.args = args)

\* C7's case: the local path is missing and main_run has ended.
C7_Witness ==
    /\ target # <<>> /\ ~IsUrl(target)
    /\ ~PathExists(fs, target)
    /\ pc = "raised"

\* C7's other case: an existing path and two residual arguments reached the
\* bootstrap runner.
C7_WitnessExisting ==
    /\ target # <<>> /\ ~IsUrl(target)
    /\ PathExists(fs, target)
    /\ boot.called
    /\ args = <<"y", "x">>

\* C8: while the bootstrap runner runs, the script path it was given exists as
\* a file; for a URL target it is the file named by the URL path's final
\* segment inside the temporary directory, it holds the fetched bytes, and the
\* temporary directory still exists.
C8_ScriptIsFile ==
    pc = "in_bootstrap" =>
        /\ IsFile(fs, boot.file)
        /\ IsUrl(target) =>
            /\ boot.file = TempDir \o <<"/">> \o RSplitLast(Strip(UrlPath(target), "/"), "/")
            /\ fs[boot.file].content = response.body
            /\ TempDir \in DOMAIN fs

\* C8, URL targets only: the part of C8 that the code satisfies.
C8_UrlScriptIsFile ==
    (pc = "in_bootstrap" /\ IsUrl(target)) =>
        /\ IsFile(fs, boot.file)
        /\ boot.file = TempDir \o <<"/">> \o RSplitLast(Strip(UrlPath(target), "/"), "/")
        /\ fs[boot.file].content = response.body
        /\ TempDir \in DOMAIN fs

\* A URL whose path has no final segment never reaches the bootstrap runner.
C8_NoSegmentNeverRuns ==
    (IsUrl(target) /\ Strip(UrlPath(target), "/") = <<>>) => ~boot.called

(***************************************************************************)
(* Dispatch: the click group `main` parses sys.argv[1:] and invokes one    *)
(* subcommand handler.  Tokens for docs, hello, run and activate are not   *)
(* generated.                                                              *)
(***************************************************************************)
LOG_LEVELS == {"error", "warning", "info", "debug"}
OptionTokens == {"--log_level", "--log_level=debug", "--help", "--version"}
ArgTokens ==
    OptionTokens \cup
    {"debug", "help", "version", "clear_cache", "show_config", "cache", "clear",
     "config", "show"}
Program == "streamlit"
CacheStates == {"present", "absent"}
Configs == {"config A", "config B"}

Printed(text) == [kind |-> "print", handler |-> "", text |-> text, level |-> None]
UsageError(text) == [kind |-> "usage_error", handler |-> "", text |-> text, level |-> None]
Invoke(handler) == [kind |-> "invoke", handler |-> handler, text |-> "", level |-> None]

\* click's option parser on a group (no interspersed arguments): the options up
\* to the first argument that is not one, and the arguments left
RECURSIVE ScanGroupOptions(_)
ScanGroupOptions(a) ==
    IF a = <<>> THEN [opts |-> <<>>, rest |-> <<>>, err |-> ""]
    ELSE IF a[1] = "--log_level"
    THEN IF Len(a) = 1
         THEN [opts |-> <<>>, rest |-> <<>>, err |-> "--log_level option requires an argument"]
         ELSE LET r == ScanGroupOptions(SubSeq(a, 3, Len(a)))
              IN [r EXCEPT !.opts = <<[name |-> "log_level", value |-> a[2]]>> \o @]
    ELSE IF a[1] = "--log_level=debug"
    THEN LET r == ScanGroupOptions(Tail(a))
         IN [r EXCEPT !.opts = <<[name |-> "log_level", value |-> "debug"]>> \o @]
    ELSE IF a[1] = "--help"
    THEN LET r == ScanGroupOptions(Tail(a))
         IN [r EXCEPT !.opts = <<[name |-> "help", value |-> ""]>> \o @]
    ELSE IF a[1] = "--version"
    THEN LET r == ScanGroupOptions(Tail(a))
         IN [r EXCEPT !.opts = <<[name |-> "version", value |-> ""]>> \o @]
    ELSE [opts |-> <<>>, rest |-> a, err |-> ""]

\* the eager option (--help, --version) given first, "" when none was given
FirstEager(opts) ==
    LET at == {i \in 1..Len(opts) : opts[i].name \in {"help", "version"}}
    IN IF at = {} THEN ""
       ELSE opts[CHOOSE i \in at : \A j \in at : i <= j].name

\* the value of the last --log_level given, None when none was given
LogLevelGiven(opts) ==
    LET at == {i \in 1..Len(opts) : opts[i].name = "log_level"}
    IN IF at = {} THEN None
       ELSE opts[CHOOSE i \in at : \A j \in at : i >= j].value

\* a command without parameters (help, version, clear_cache, show_config,
\* cache clear, config show) given the arguments r
LeafOutcome(handler, r) ==
    IF \E i \in 1..Len(r) : r[i] \in OptionTokens \ {"--help"}
    THEN UsageError("no such option")
    ELSE IF \E i \in 1..Len(r) : r[i] = "--help"
    THEN Printed(<<"help of", handler>>)
    ELSE IF r # <<>>
    THEN UsageError("unexpected extra argument")
    ELSE Invoke(handler)

\* the groups `cache` (command clear) and `config` (command show)
SubGroupOutcome(group, command, handler, r) ==
    IF r = <<>> THEN Printed(<<"help of", group>>)
    ELSE IF r[1] \in OptionTokens \ {"--help"} THEN UsageError("no such option")
    ELSE IF r[1] = "--help" THEN Printed(<<"help of", group>>)
    ELSE IF r[1] = command THEN LeafOutcome(handler, Tail(r))
    ELSE UsageError("No such command")

CommandOutcome(name, r) ==
    IF name = "help" THEN LeafOutcome("help", r)
    ELSE IF name = "version" THEN LeafOutcome("main_version", r)
    ELSE IF name = "clear_cache" THEN LeafOutcome("main_clear_cache", r)
    ELSE IF name = "show_config" THEN LeafOutcome("main_show_config", r)
    ELSE IF name = "cache" THEN SubGroupOutcome("cache", "clear", "cache_clear", r)
    ELSE IF name = "config" THEN SubGroupOutcome("config", "show", "config_show", r)
    ELSE UsageError("No such command")

CommandNames == {"help", "version", "clear_cache", "show_config", "cache", "config"}

\* main(): what click does with the arguments a = sys.argv[1:]
MainOutcome(a) ==
    LET s == ScanGroupOptions(a)
        level == LogLevelGiven(s.opts)
    IN IF a = <<>> THEN Printed(<<"help of", "main">>)
       ELSE IF s.err # "" THEN UsageError(s.err)
       ELSE IF FirstEager(s.opts) = "help" THEN Printed(<<"help of", "main">>)
       ELSE IF FirstEager(s.opts) = "version" THEN Printed(<<"Streamlit, version">>)
       ELSE IF level # None /\ level \notin LOG_LEVELS THEN UsageError("invalid choice")
       ELSE IF s.rest = <<>> THEN UsageError("Missing command")
       ELSE IF s.rest[1] \notin CommandNames THEN UsageError("No such command")
       ELSE [CommandOutcome(s.rest[1], Tail(s.rest)) EXCEPT !.level = level]

Call(fn) == [fn |-> fn, args |-> <<>>]

\* log_level.upper()
UpperLevel(l) ==
    CASE l = "error" -> "ERROR"
      [] l = "warning" -> "WARNING"
      [] l = "info" -> "INFO"
      [] l = "debug" -> "DEBUG"

\* the notice click itself prints for a command declared deprecated=True
ClickDeprecationWarning(name) == <<"DeprecationWarning: The command is deprecated.", name>>

Deprecated == {"main_clear_cache", "main_show_config"}
AliasName(handler) == IF handler = "main_clear_cache" THEN "clear_cache" ELSE "show_config"

\* main(): parse, the group callback (lines 68-71), and the jump to the handler
Dispatch ==
    /\ pc = "main"
    /\ LET o == MainOutcome(Tail(argv))
       IN /\ calls' = IF o.level # None
                      THEN Append(calls, [fn |-> "set_log_level", args |-> <<UpperLevel(o.level)>>])
                      ELSE calls
          /\ IF o.kind = "print"
             THEN /\ stdout' = Append(stdout, o.text)
                  /\ pc' = "returned"
                  /\ UNCHANGED <<exc, stderr>>
             ELSE IF o.kind = "usage_error"
             THEN /\ exc' = [type |-> "UsageError", msg |-> <<o.text>>]
                  /\ pc' = "raised"
                  /\ UNCHANGED <<stdout, stderr>>
             ELSE /\ pc' = o.handler
                  /\ stderr' = IF o.handler \in Deprecated
                               THEN Append(stderr, ClickDeprecationWarning(AliasName(o.handler)))
                               ELSE stderr
                  /\ UNCHANGED <<exc, stdout>>
    /\ UNCHANGED <<optVars, runVars, argv, cache, cache0, cfg>>

\* help: assert len(sys.argv) == 2; sys.argv[1] = "--help"; main()
Help ==
    /\ pc = "help"
    /\ calls' = Append(calls, Call("help"))
    /\ IF Len(argv) = 2
       THEN /\ argv' = [argv EXCEPT ![2] = "--help"]
            /\ pc' = "main"
            /\ UNCHANGED exc
       ELSE /\ exc' = Raised("AssertionError")
            /\ pc' = "raised"
            /\ UNCHANGED argv
    /\ UNCHANGED <<stdout, optVars, runVars, cache, cache0, cfg, stderr>>

\* version: assert len(sys.argv) == 2; sys.argv[1] = "--version"; main()
MainVersion ==
    /\ pc = "main_version"
    /\ calls' = Append(calls, Call("main_version"))
    /\ IF Len(argv) = 2
       THEN /\ argv' = [argv EXCEPT ![2] = "--version"]
            /\ pc' = "main"
            /\ UNCHANGED exc
       ELSE /\ exc' = Raised("AssertionError")
            /\ pc' = "raised"
            /\ UNCHANGED argv
    /\ UNCHANGED <<stdout, optVars, runVars, cache, cache0, cfg, stderr>>

\* clear_cache (deprecated): the notice, then ctx.invoke(cache_clear)
MainClearCacheNoInvoke ==
    /\ pc = "main_clear_cache"
    /\ calls' = Append(calls, Call("main_clear_cache"))
    /\ stdout' = Append(stdout, <<"Use \"cache clear\" instead.">>)
    /\ pc' = "returned"
    /\ UNCHANGED <<exc, optVars, runVars, argv, cache, cache0, cfg, stderr>>

MainClearCache ==
    /\ pc = "main_clear_cache"
    /\ calls' = Append(calls, Call("main_clear_cache"))
    /\ stdout' = Append(stdout, <<"Use \"cache clear\" instead.">>)
    /\ pc' = "cache_clear"
    /\ UNCHANGED <<exc, optVars, runVars, argv, cache, cache0, cfg, stderr>>

\* show_config (deprecated): the notice, then ctx.invoke(config_show)
MainShowConfig ==
    /\ pc = "main_show_config"
    /\ calls' = Append(calls, Call("main_show_config"))
    /\ stdout' = Append(stdout, <<"Use \"config show\" instead.">>)
    /\ pc' = "config_show"
    /\ UNCHANGED <<exc, optVars, runVars, argv, cache, cache0, cfg, stderr>>

\* streamlit.caching.clear_cache(): removes the cache directory if there is one
ClearCache(c) == [result |-> c = "present", cache |-> "absent"]

\* streamlit.caching.get_cache_path()
CachePath == "~/.streamlit/cache"

\* cache clear
CacheClear ==
    /\ pc = "cache_clear"
    /\ calls' = Append(calls, Call("cache_clear"))
    /\ LET r == ClearCache(cache)
       IN /\ cache' = r.cache
          /\ stdout' = Append(stdout,
                IF r.result THEN <<"Cleared directory %s.", CachePath>>
                ELSE <<"Nothing to clear at %s.", CachePath>>)
    /\ pc' = "returned"
    /\ UNCHANGED <<exc, optVars, runVars, argv, cache0, cfg, stderr>>

\* streamlit.config.show_config(): prints the effective configuration
ShowConfig(c) == <<"show_config", c>>

\* config show
ConfigShow ==
    /\ pc = "config_show"
    /\ calls' = Append(calls, Call("config_show"))
    /\ stdout' = Append(stdout, ShowConfig(cfg))
    /\ pc' = "returned"
    /\ UNCHANGED <<exc, optVars, runVars, argv, cache, cache0, cfg, stderr>>

InitCli ==
    /\ pc = "main"
    /\ exc = NoExc
    /\ stdout = <<>>
    /\ OptIdle
    /\ RunIdle
    /\ argv \in {<<Program>> \o a : a \in SeqsUpTo(ArgTokens, MaxArgv)}
    /\ cache \in CacheStates
    /\ cache0 = cache
    /\ cfg \in Configs
    /\ stderr = <<>>
    /\ calls = <<>>

NextCli ==
    \/ Dispatch
    \/ Help
    \/ MainVersion
    \/ MainClearCache
    \/ MainShowConfig
    \/ CacheClear
    \/ ConfigShow

SpecCli == InitCli /\ [][NextCli]_vars

Ran(fn) == \E i \in 1..Len(calls) : calls[i].fn = fn

TimesRan(fn) == Cardinality({i \in 1..Len(calls) : calls[i].fn = fn})

\* C9: when a deprecated alias has run to its end, standard output is the
\* notice naming the replacement followed by exactly what the replacement
\* prints from the same cache and configuration, the cache is cleared, and the
\* replacement handler ran exactly once, without arguments; the replacement
\* invoked directly prints the same without the notice.
C9_AliasEquivalence ==
    pc = "returned" =>
        /\ Ran("main_clear_cache") =>
            /\ stdout = <<<<"Use \"cache clear\" instead.">>,
                          IF cache0 = "present" THEN <<"Cleared directory %s.", CachePath>>
                          ELSE <<"Nothing to clear at %s.", CachePath>>>>
            /\ cache = "absent"
            /\ TimesRan("cache_clear") = 1
        /\ (Ran("cache_clear") /\ ~Ran("main_clear_cache")) =>
            /\ stdout = <<IF cache0 = "present" THEN <<"Cleared directory %s.", CachePath>>
                          ELSE <<"Nothing to clear at %s.", CachePath>>>>
            /\ cache = "absent"
            /\ TimesRan("cache_clear") = 1
        /\ Ran("main_show_config") =>
            /\ stdout = <<<<"Use \"config show\" instead.">>, <<"show_config", cfg>>>>
            /\ cache = cache0
            /\ TimesRan("config_show") = 1
        /\ (Ran("config_show") /\ ~Ran("main_show_config")) =>
            /\ stdout = <<<<"show_config", cfg>>>>
            /\ cache = cache0
            /\ TimesRan("config_show") = 1
        /\ \A i \in 1..Len(calls) :
            calls[i].fn \in {"cache_clear", "config_show"} => calls[i].args = <<>>

\* C9's case: clear_cache was invoked with a cache directory present and has
\* finished.
C9_Witness ==
    /\ pc = "returned"
    /\ Ran("main_clear_cache")
    /\ cache0 = "present"
    /\ cache = "absent"

\* C10: whenever the handler of help or version executes, sys.argv has exactly
\* two elements, so its assertion never fails; and after the rewrite the
\* re-dispatch of main does not enter the handler again.
C10_ArgvHasTwoElements ==
    /\ pc \in {"help", "main_version"} => Len(argv) = 2
    /\ exc.type # "AssertionError"
    /\ TimesRan("help") <= 1
    /\ TimesRan("main_version") <= 1

====
